---- MODULE Spec2Model ----
\* A model of gitlab_pipeline_visualizer.py: the include resolver and the
\* command-line entry point (specification Spec), the dependency graph builder
\* (specification GraphSpec) and the identifier sanitizer (specification
\* IdentSpec).
EXTENDS Integers, Sequences, FiniteSets, TLC

VARIABLES
    pc,            \* position of main(): "main", "parse", "resolve", "extract", "jobs_check", "exit"
    exitCode,      \* process exit status, -1 while running
    error,         \* [kind, path] of the exception that ended the run, kind "none" otherwise
    args,          \* parsed command line: [open, output]
    files,         \* the file system as read so far: path -> [status, keys]
    rootIncludes,  \* the include list of the root document
    stack,         \* call stack of resolve_includes: frames [path, config, pos]
    visited,       \* the visited set shared by the recursive calls
    loads,         \* path -> number of load_yaml calls that read it
    merged,        \* paths merged by the root call's loop, in merge order
    config,        \* self.config after resolve_includes
    jobs,          \* self.jobs: the keys of config taken as jobs
    gpc,           \* position of build_dependency_graph
    jobTable,      \* self.jobs of the visualizer: insertion-ordered sequence of [id, stage, needs]
    stages,        \* self.stages
    stage_jobs,    \* stage name -> sequence of job ids
    dependencies,  \* job id -> dependency sequence, for the jobs processed so far
    cursor,        \* index of the next job of the second loop
    ipc,           \* position of the sanitizer run
    name,          \* the job name given to name_to_identifier
    ident,         \* name_to_identifier(name)
    ident2         \* name_to_identifier(ident)

resolverVars == <<pc, exitCode, error, args, files, rootIncludes, stack, visited,
                  loads, merged, config, jobs>>
graphVars == <<gpc, jobTable, stages, stage_jobs, dependencies, cursor>>
identVars == <<ipc, name, ident, ident2>>
vars == <<resolverVars, graphVars, identVars>>

----------------------------------------------------------------------------
\* Bounds and input sets

MaxIncludes == 2        \* longest include list of one document
RecursionLimit == 6     \* depth at which the interpreter raises RecursionError

Root == "ci.yml"
Paths == {Root, "b.yml", "c.yml"}
\* the sets of top-level keys a document may hold besides 'include': none, a
\* job with a reserved keyword, and keys that are no jobs (a reserved keyword,
\* a template with a leading '.', a key with a scalar value)
DocKeySets == { {}, {"build", "variables"}, {"variables", ".template", "note"} }
NoError == [kind |-> "none", path |-> "none"]

\* include entries: a plain string, a mapping with a 'local' key, and an entry
\* that is neither (a remote/project/template mapping, or any other value)
IncludeEntries ==
    { [kind |-> "str",    text |-> <<Root>>],
      [kind |-> "str",    text |-> <<"b.yml">>],
      [kind |-> "local",  text |-> <<"/", "b.yml">>],
      [kind |-> "local",  text |-> <<"/", "c.yml">>],
      [kind |-> "remote", text |-> <<>>] }

RECURSIVE SeqsUpTo(_, _)
SeqsUpTo(S, n) ==
    IF n = 0 THEN {<<>>}
    ELSE LET shorter == SeqsUpTo(S, n - 1)
         IN  shorter \cup {Append(s, x) : s \in {t \in shorter : Len(t) = n - 1}, x \in S}

----------------------------------------------------------------------------
\* GitLabCIParser.resolve_includes

\* inc.lstrip('/')
RECURSIVE LStripSlash(_)
LStripSlash(text) ==
    IF text # <<>> /\ Head(text) = "/" THEN LStripSlash(Tail(text)) ELSE text

\* (self.base_dir / inc.lstrip('/')).resolve() for a single path component
IncludePath(inc) == LStripSlash(inc.text)[1]

\* the document a file holds: every value is tagged with the file it comes from
DocOf(path, keys) == [k \in keys |-> path]

\* the merge with its operands swapped: {**config, **included_config}
MergeIncludedWins(included_config, cfg) ==
    [k \in DOMAIN included_config \cup DOMAIN cfg |->
        IF k \in DOMAIN included_config THEN included_config[k] ELSE cfg[k]]

\* {**included_config, **config}
Merge(included_config, cfg) ==
    [k \in DOMAIN included_config \cup DOMAIN cfg |->
        IF k \in DOMAIN cfg THEN cfg[k] ELSE included_config[k]]

Top == stack[Len(stack)]
Advance(s) == [s EXCEPT ![Len(s)].pos = @ + 1]

\* the entries the loop of the top frame can see next: the root document's
\* list is fixed when it is loaded, another file's list is read as it goes
NextEntries ==
    IF Top.path = Root
    THEN IF Top.pos < Len(rootIncludes) THEN {rootIncludes[Top.pos + 1]} ELSE {}
    ELSE IF Top.pos < MaxIncludes THEN IncludeEntries ELSE {}

AtEnd == IF Top.path = Root THEN Top.pos = Len(rootIncludes) ELSE TRUE

Statuses == {"ok", "missing", "unreadable", "malformed"}
StatusChoices(path) ==
    IF files[path].status = "unseen" THEN Statuses ELSE {files[path].status}
KeyChoices(path) ==
    IF files[path].status = "unseen" THEN DocKeySets ELSE {files[path].keys}


\* a resolver that forgets to record the path it is about to load
VisitedAddNothing(v, path) == v

\* visited.add(include_path)
VisitedAdd(v, path) == v \cup {path}

\* 'include_path in visited'
AlreadyVisited(v, path) == path \in v

Raise(kind, path) ==
    /\ error' = [kind |-> kind, path |-> path]
    /\ exitCode' = 1
    /\ pc' = "exit"

\* an entry that is neither a string nor a mapping with 'local': continue
SkipUnsupported ==
    /\ pc = "resolve"
    /\ \E inc \in NextEntries : inc.kind \notin {"str", "local"}
    /\ stack' = Advance(stack)
    /\ UNCHANGED <<pc, exitCode, error, args, files, rootIncludes, visited, loads,
                   merged, config, jobs>>

\* the resolved path is in visited: warn and continue
SkipCircular ==
    /\ pc = "resolve"
    /\ \E inc \in NextEntries :
        /\ inc.kind \in {"str", "local"}
        /\ AlreadyVisited(visited, IncludePath(inc))
    /\ stack' = Advance(stack)
    /\ UNCHANGED <<pc, exitCode, error, args, files, rootIncludes, visited, loads,
                   merged, config, jobs>>

\* include_path.exists() is false: warn and continue
IncludeNotFound ==
    /\ pc = "resolve"
    /\ \E inc \in NextEntries :
        LET path == IncludePath(inc) IN
        /\ inc.kind \in {"str", "local"}
        /\ ~AlreadyVisited(visited, path)
        /\ "missing" \in StatusChoices(path)
        /\ visited' = VisitedAdd(visited, path)
        /\ files' = [files EXCEPT ![path] = [status |-> "missing", keys |-> {}]]
    /\ stack' = Advance(stack)
    /\ UNCHANGED <<pc, exitCode, error, args, rootIncludes, loads, merged, config, jobs>>

\* the file exists and load_yaml raises: the exception leaves resolve_includes
\* and parse, and main's handlers exit with 1
IncludeLoadError ==
    /\ pc = "resolve"
    /\ \E inc \in NextEntries, st \in {"unreadable", "malformed"} :
        LET path == IncludePath(inc) IN
        /\ inc.kind \in {"str", "local"}
        /\ ~AlreadyVisited(visited, path)
        /\ st \in StatusChoices(path)
        /\ visited' = VisitedAdd(visited, path)
        /\ files' = [files EXCEPT ![path] = [status |-> st, keys |-> {}]]
        /\ loads' = [loads EXCEPT ![path] = @ + 1]
        /\ Raise(IF st = "unreadable" THEN "access" ELSE "yaml", path)
    /\ UNCHANGED <<args, rootIncludes, stack, merged, config, jobs>>

\* the file exists and loads: recurse into it with the shared visited set
EnterInclude ==
    /\ pc = "resolve"
    /\ \E inc \in NextEntries :
        LET path == IncludePath(inc) IN
        /\ inc.kind \in {"str", "local"}
        /\ ~AlreadyVisited(visited, path)
        /\ "ok" \in StatusChoices(path)
        /\ \E keys \in KeyChoices(path) :
            /\ visited' = VisitedAdd(visited, path)
            /\ files' = [files EXCEPT ![path] = [status |-> "ok", keys |-> keys]]
            /\ loads' = [loads EXCEPT ![path] = @ + 1]
            /\ IF Len(stack) >= RecursionLimit
               THEN /\ Raise("recursion", path)
                    /\ stack' = stack
               ELSE /\ stack' = Append(Advance(stack),
                                       [path |-> path, config |-> DocOf(path, keys), pos |-> 0])
                    /\ UNCHANGED <<pc, exitCode, error>>
    /\ UNCHANGED <<args, rootIncludes, merged, config, jobs>>

\* a recursive call returns: config = {**included_config, **config} in the caller
ReturnInclude ==
    /\ pc = "resolve"
    /\ Len(stack) > 1
    /\ AtEnd
    /\ LET caller == stack[Len(stack) - 1]
           rest == SubSeq(stack, 1, Len(stack) - 2)
       IN  /\ stack' = Append(rest, [caller EXCEPT !.config = Merge(Top.config, caller.config)])
           /\ merged' = IF Len(stack) = 2 THEN Append(merged, Top.path) ELSE merged
    /\ UNCHANGED <<pc, exitCode, error, args, files, rootIncludes, visited, loads,
                   config, jobs>>

\* the outermost call returns to parse: self.config = the merged document
FinishResolve ==
    /\ pc = "resolve"
    /\ Len(stack) = 1
    /\ AtEnd
    /\ config' = Top.config
    /\ stack' = <<>>
    /\ pc' = "extract"
    /\ UNCHANGED <<exitCode, error, args, files, rootIncludes, visited, loads,
                   merged, jobs>>

----------------------------------------------------------------------------
\* GitLabCIParser.parse and main

ReservedKeywords == {"default", "variables", "workflow", "include", "stages",
                     "before_script", "after_script", "cache", "image", "services"}

\* name.startswith('.')
IsTemplate(k) == k \in {".template"}

\* isinstance(job_config, dict): the value of 'note' is a string, every other
\* value of the documents is a mapping
IsMapping(k) == k # "note"

IsJob(k) == ~IsTemplate(k) /\ k \notin ReservedKeywords /\ IsMapping(k)

\* main without its check for an empty job table
NoJobsNever(js) == FALSE

\* 'if not jobs' of main
NoJobs(js) == js = {}

ArgChoices == { [open |-> FALSE, output |-> "raw"],
                [open |-> TRUE,  output |-> "raw"] }

\* parser.parse_args() succeeded; --open with the raw output is rejected by
\* parser.error, which exits with status 2
ParseArgs ==
    /\ pc = "main"
    /\ \E a \in ArgChoices :
        /\ args' = a
        /\ IF a.open /\ a.output = "raw"
           THEN /\ error' = [kind |-> "usage", path |-> "none"]
                /\ exitCode' = 2
                /\ pc' = "exit"
           ELSE /\ pc' = "parse"
                /\ UNCHANGED <<error, exitCode>>
    /\ UNCHANGED <<files, rootIncludes, stack, visited, loads, merged, config, jobs>>

\* parse: load_yaml(self.yaml_path) raises for the root file
LoadRootError ==
    /\ pc = "parse"
    /\ \E st \in {"missing", "unreadable", "malformed"} :
        /\ files' = [files EXCEPT ![Root] = [status |-> st, keys |-> {}]]
        /\ Raise(CASE st = "missing" -> "not_found"
                   [] st = "unreadable" -> "access"
                   [] OTHER -> "yaml", Root)
    /\ loads' = [loads EXCEPT ![Root] = @ + 1]
    /\ UNCHANGED <<args, rootIncludes, stack, visited, merged, config, jobs>>

\* parse: the root document loads and resolve_includes is called on it with
\* visited = None, that is, with a fresh empty set
LoadRoot ==
    /\ pc = "parse"
    /\ \E keys \in DocKeySets, incs \in SeqsUpTo(IncludeEntries, MaxIncludes) :
        /\ files' = [files EXCEPT ![Root] = [status |-> "ok", keys |-> keys]]
        /\ rootIncludes' = incs
        /\ stack' = <<[path |-> Root, config |-> DocOf(Root, keys), pos |-> 0]>>
    /\ loads' = [loads EXCEPT ![Root] = @ + 1]
    /\ visited' = {}
    /\ pc' = "resolve"
    /\ UNCHANGED <<exitCode, error, args, merged, config, jobs>>

\* parse: pop 'stages', then keep the keys that are jobs
ExtractJobs ==
    /\ pc = "extract"
    /\ config' = [k \in DOMAIN config \ {"stages"} |-> config[k]]
    /\ jobs' = {k \in DOMAIN config \ {"stages"} : IsJob(k)}
    /\ pc' = "jobs_check"
    /\ UNCHANGED <<exitCode, error, args, files, rootIncludes, stack, visited, loads,
                   merged>>

\* main: no jobs, sys.exit(1)
ExitNoJobs ==
    /\ pc = "jobs_check"
    /\ NoJobs(jobs)
    /\ exitCode' = 1
    /\ pc' = "exit"
    /\ UNCHANGED <<error, args, files, rootIncludes, stack, visited, loads, merged,
                   config, jobs>>

\* main: the diagram is generated and printed, main returns
RenderDiagram ==
    /\ pc = "jobs_check"
    /\ ~NoJobs(jobs)
    /\ exitCode' = 0
    /\ pc' = "exit"
    /\ UNCHANGED <<error, args, files, rootIncludes, stack, visited, loads, merged,
                   config, jobs>>

\* main: generating the diagram raises (a job whose stage is a list cannot be a
\* key of stage_jobs), 'except Exception' exits with 1
RenderError ==
    /\ pc = "jobs_check"
    /\ ~NoJobs(jobs)
    /\ Raise("render", "none")
    /\ UNCHANGED <<args, files, rootIncludes, stack, visited, loads, merged,
                   config, jobs>>

ResolverIdle ==
    /\ pc = "idle"
    /\ exitCode = -1
    /\ error = NoError
    /\ args = [open |-> FALSE, output |-> "raw"]
    /\ files = [p \in Paths |-> [status |-> "unseen", keys |-> {}]]
    /\ rootIncludes = <<>>
    /\ stack = <<>>
    /\ visited = {}
    /\ loads = [p \in Paths |-> 0]
    /\ merged = <<>>
    /\ config = <<>>
    /\ jobs = {}

GraphIdle ==
    /\ gpc = "idle" /\ jobTable = <<>> /\ stages = <<>> /\ stage_jobs = <<>>
    /\ dependencies = <<>> /\ cursor = 0

IdentIdle == ipc = "idle" /\ name = <<>> /\ ident = <<>> /\ ident2 = <<>>

Init ==
    /\ pc = "main"
    /\ exitCode = -1
    /\ error = NoError
    /\ args = [open |-> FALSE, output |-> "raw"]
    /\ files = [p \in Paths |-> [status |-> "unseen", keys |-> {}]]
    /\ rootIncludes = <<>>
    /\ stack = <<>>
    /\ visited = {}
    /\ loads = [p \in Paths |-> 0]
    /\ merged = <<>>
    /\ config = <<>>
    /\ jobs = {}
    /\ GraphIdle
    /\ IdentIdle

Next ==
    \/ ParseArgs /\ UNCHANGED <<graphVars, identVars>>
    \/ LoadRootError /\ UNCHANGED <<graphVars, identVars>>
    \/ LoadRoot /\ UNCHANGED <<graphVars, identVars>>
    \/ SkipUnsupported /\ UNCHANGED <<graphVars, identVars>>
    \/ SkipCircular /\ UNCHANGED <<graphVars, identVars>>
    \/ IncludeNotFound /\ UNCHANGED <<graphVars, identVars>>
    \/ IncludeLoadError /\ UNCHANGED <<graphVars, identVars>>
    \/ EnterInclude /\ UNCHANGED <<graphVars, identVars>>
    \/ ReturnInclude /\ UNCHANGED <<graphVars, identVars>>
    \/ FinishResolve /\ UNCHANGED <<graphVars, identVars>>
    \/ ExtractJobs /\ UNCHANGED <<graphVars, identVars>>
    \/ ExitNoJobs /\ UNCHANGED <<graphVars, identVars>>
    \/ RenderDiagram /\ UNCHANGED <<graphVars, identVars>>
    \/ RenderError /\ UNCHANGED <<graphVars, identVars>>

Spec == Init /\ [][Next]_vars

\* the program runs to its end: no step that can be taken is postponed forever
FairSpec == Spec /\ WF_vars(Next)

----------------------------------------------------------------------------
\* GitLabPipelineVisualizer.build_dependency_graph

MaxStages == 3          \* longest StageList

StageNames == {"build", "test", "deploy"}
JobIds == <<"j1", "j2", "j3">>
JobStages == StageNames \cup {"missing_stage"}
\* needs sequences: none, one job, and one with a repeated and an unknown id
NeedsChoices == { <<>>, <<"j1">>, <<"j2", "ghost", "j2">> }

JobTables ==
    UNION { { [i \in 1..n |-> [id |-> JobIds[i], stage |-> f[i].stage, needs |-> f[i].needs]] :
                f \in [1..n -> [stage : JobStages, needs : NeedsChoices]] } :
            n \in 0..Len(JobIds) }

Ids(table) == [i \in DOMAIN table |-> table[i].id]

\* stage_jobs[job['stage']].append(job_id) for every job, in insertion order
GroupByStage(table) ==
    [s \in {table[i].stage : i \in DOMAIN table} |->
        Ids(SelectSeq(table, LAMBDA job : job.stage = s))]

\* the last position of the stage instead of the first
StageIndexLast(stageList, stage) ==
    IF \E i \in DOMAIN stageList : stageList[i] = stage
    THEN (CHOOSE i \in DOMAIN stageList :
            /\ stageList[i] = stage
            /\ \A j \in (i + 1)..Len(stageList) : stageList[j] # stage) - 1
    ELSE -1

\* self.stages.index(stage): the first position, counted from 0; -1 stands
\* for the ValueError of a stage that does not occur
StageIndex(stageList, stage) ==
    IF \E i \in DOMAIN stageList : stageList[i] = stage
    THEN (CHOOSE i \in DOMAIN stageList :
            /\ stageList[i] = stage
            /\ \A j \in 1..(i - 1) : stageList[j] # stage) - 1
    ELSE -1

\* stage_jobs.get(prev_stage, [])
StageJobsGet(groups, stage) == IF stage \in DOMAIN groups THEN groups[stage] ELSE <<>>

\* an off-by-one: the jobs of the job's own stage instead of the previous one
ImplicitDepsOwnStage(stageList, groups, job) ==
    LET stage_idx == StageIndex(stageList, job.stage)
    IN  IF stage_idx > 0
        THEN StageJobsGet(groups, stageList[stage_idx + 1])
        ELSE <<>>

\* the else branch: deps of a job without needs
ImplicitDeps(stageList, groups, job) ==
    LET stage_idx == StageIndex(stageList, job.stage)
    IN  IF stage_idx > 0
        THEN StageJobsGet(groups, stageList[(stage_idx - 1) + 1])
        ELSE <<>>

\* needs with the identifiers that are no keys of the job table dropped
ExplicitDepsKnownOnly(job) ==
    SelectSeq(job.needs, LAMBDA d : \E i \in DOMAIN jobTable : jobTable[i].id = d)

\* dependencies[job_id] = job['needs']
ExplicitDeps(job) == job.needs

\* the first loop: the mapping of stages to jobs
GroupJobs ==
    /\ gpc = "group"
    /\ stage_jobs' = GroupByStage(jobTable)
    /\ cursor' = 1
    /\ gpc' = "deps"
    /\ UNCHANGED <<jobTable, stages, dependencies>>

\* the second loop, a job with needs
DepsFromNeeds ==
    /\ gpc = "deps"
    /\ cursor <= Len(jobTable)
    /\ jobTable[cursor].needs # <<>>
    /\ dependencies' = (jobTable[cursor].id :> ExplicitDeps(jobTable[cursor])) @@ dependencies
    /\ cursor' = cursor + 1
    /\ UNCHANGED <<gpc, jobTable, stages, stage_jobs>>

\* the second loop, a job without needs
DepsFromStage ==
    /\ gpc = "deps"
    /\ cursor <= Len(jobTable)
    /\ jobTable[cursor].needs = <<>>
    /\ dependencies' = (jobTable[cursor].id :> ImplicitDeps(stages, stage_jobs, jobTable[cursor]))
                        @@ dependencies
    /\ cursor' = cursor + 1
    /\ UNCHANGED <<gpc, jobTable, stages, stage_jobs>>

\* return dependencies
ReturnGraph ==
    /\ gpc = "deps"
    /\ cursor > Len(jobTable)
    /\ gpc' = "done"
    /\ UNCHANGED <<jobTable, stages, stage_jobs, dependencies, cursor>>

GraphInit ==
    /\ ResolverIdle
    /\ IdentIdle
    /\ gpc = "group"
    /\ jobTable \in JobTables
    /\ stages \in SeqsUpTo(StageNames, MaxStages)
    /\ stage_jobs = <<>>
    /\ dependencies = <<>>
    /\ cursor = 0

GraphNext ==
    \/ GroupJobs /\ UNCHANGED <<resolverVars, identVars>>
    \/ DepsFromNeeds /\ UNCHANGED <<resolverVars, identVars>>
    \/ DepsFromStage /\ UNCHANGED <<resolverVars, identVars>>
    \/ ReturnGraph /\ UNCHANGED <<resolverVars, identVars>>

GraphSpec == GraphInit /\ [][GraphNext]_vars

----------------------------------------------------------------------------
\* GitLabCIParser.name_to_identifier

MaxNameLen == 3         \* longest job name

Letters == {"a"}
Digits == {"7"}
NameChars == Letters \cup Digits \cup {"_", "-", " "}

\* \w
IsWord(c) == c \in Letters \cup Digits \cup {"_"}
\* \d
IsDigit(c) == c \in Digits

\* the lookahead written with \w instead of \d
LeadingWordChar(s) == s # <<>> /\ IsWord(s[1])

\* ^(?=\d): the empty match at the start of a name that begins with a digit
LeadingDigit(s) == s # <<>> /\ IsDigit(s[1])

\* \W+ replaced by "_": every maximal run of non-word characters becomes one "_"
RECURSIVE ReplaceRuns(_, _)
ReplaceRuns(s, inRun) ==
    IF s = <<>> THEN <<>>
    ELSE IF IsWord(Head(s)) THEN <<Head(s)>> \o ReplaceRuns(Tail(s), FALSE)
    ELSE IF inRun THEN ReplaceRuns(Tail(s), TRUE)
    ELSE <<"_">> \o ReplaceRuns(Tail(s), TRUE)

\* re.sub(r"\W+|^(?=\d)", "_", str(name))
NameToIdentifier(s) ==
    (IF LeadingDigit(s) THEN <<"_">> ELSE <<>>) \o ReplaceRuns(s, FALSE)

Sanitize ==
    /\ ipc = "name"
    /\ ident' = NameToIdentifier(name)
    /\ ipc' = "identifier"
    /\ UNCHANGED <<name, ident2>>

SanitizeAgain ==
    /\ ipc = "identifier"
    /\ ident2' = NameToIdentifier(ident)
    /\ ipc' = "again"
    /\ UNCHANGED <<name, ident>>

IdentInit ==
    /\ ResolverIdle
    /\ GraphIdle
    /\ ipc = "name"
    /\ name \in SeqsUpTo(NameChars, MaxNameLen)
    /\ ident = <<>>
    /\ ident2 = <<>>

IdentNext ==
    \/ Sanitize /\ UNCHANGED <<resolverVars, graphVars>>
    \/ SanitizeAgain /\ UNCHANGED <<resolverVars, graphVars>>

IdentSpec == IdentInit /\ [][IdentNext]_vars

----------------------------------------------------------------------------
\* Properties of the include resolver and of main (Spec, FairSpec)

LoadedIncludes == {p \in visited : files[p].status = "ok"}
IsPathEntry(inc) == inc.kind \in {"str", "local"}

\* C1: whatever the include graph (self-include, two-file cycle, longer
\* cycles), resolve_includes never recurses without end and it returns the
\* merged document to parse, unless a file that exists fails to load.
ResolveTerminates ==
    /\ [](error.kind # "recursion")
    /\ (pc = "resolve") ~> (pc = "extract" \/ error.kind \in {"access", "yaml"})

\* the root includes b.yml, b.yml includes the root again, and the call returned
CycleResolved ==
    /\ pc = "extract"
    /\ loads[Root] = 2
    /\ merged = <<"b.yml">>
    /\ \A i \in DOMAIN rootIncludes :
        IsPathEntry(rootIncludes[i]) => IncludePath(rootIncludes[i]) = "b.yml"

\* C2: the resolved configuration has no include key, holds the root's value
\* for every key of the root document, and holds every key that only loaded
\* included files define, with the value of one of those files.
RootWinsIncludedSurvive ==
    pc = "extract" =>
        /\ "include" \notin DOMAIN config
        /\ \A k \in files[Root].keys : k \in DOMAIN config /\ config[k] = Root
        /\ \A p \in LoadedIncludes : \A k \in files[p].keys \ files[Root].keys :
            /\ k \in DOMAIN config
            /\ config[k] \in {q \in LoadedIncludes : k \in files[q].keys}
        /\ DOMAIN config = files[Root].keys \cup UNION {files[p].keys : p \in LoadedIncludes}

\* the root defines variables and no job, and includes b.yml {build, variables}
OverrideResolved ==
    /\ pc = "extract"
    /\ files[Root].keys = {"variables", ".template", "note"}
    /\ "b.yml" \in LoadedIncludes
    /\ files["b.yml"].keys = {"build", "variables"}
    /\ config = [k \in {"build", "variables", ".template", "note"} |->
                    IF k = "build" THEN "b.yml" ELSE Root]

\* C6 as stated: main exits with 1 when loading or parsing failed or no job
\* was found, and with 0 in every other case.
ExitOneOnFailureElseZero ==
    pc = "exit" =>
        exitCode = IF \/ error.kind \in {"not_found", "access", "yaml", "recursion"}
                      \/ (error.kind \in {"none", "render"} /\ jobs = {})
                   THEN 1 ELSE 0

\* C6 amended: main exits with 2 when the command line is rejected, with 1
\* when loading or parsing failed, no job was found or generating the diagram
\* raised, and with 0 in every other case.
ExitCodeOfMain ==
    pc = "exit" =>
        exitCode = IF error.kind = "usage" THEN 2
                   ELSE IF \/ error.kind \in {"not_found", "access", "yaml", "recursion", "render"}
                           \/ jobs = {}
                        THEN 1 ELSE 0

\* a resolved configuration with keys and no job among them ended the run with 1
ZeroJobsExit ==
    /\ pc = "exit"
    /\ error = NoError
    /\ DOMAIN config # {}
    /\ jobs = {}
    /\ exitCode = 1

\* C7: of two files that the root's include list names in this order, that
\* both define a key the root does not define, the later one supplies the value.
LaterIncludeWins ==
    pc = "extract" =>
        \A i, j \in DOMAIN merged : \A k \in files[merged[i]].keys \cap files[merged[j]].keys :
            (i < j /\ k \notin files[Root].keys) => config[k] = merged[j]

\* C8: no file is loaded more than once during one parse.
NoFileLoadedTwice == \A p \in Paths : loads[p] <= 1

\* C9: an included file that is missing or unreadable never aborts the run;
\* only the root file can end it with a file access error.
IncludedFileNeverFatal ==
    error.kind \in {"not_found", "access"} => error.path = Root

----------------------------------------------------------------------------
\* Properties of build_dependency_graph (GraphSpec)

JobsOfStage(stage) == Ids(SelectSeq(jobTable, LAMBDA job : job.stage = stage))
FirstPositions(stage) ==
    {i \in DOMAIN stages : stages[i] = stage /\ \A j \in 1..(i - 1) : stages[j] # stage}

\* C3: a job without needs whose stage is found at position i > 0 of StageList
\* depends on all jobs of the stage at position i - 1, in insertion order; a
\* job whose stage is first or absent has no dependencies.
ImplicitStageDependencies ==
    gpc = "done" =>
        \A n \in DOMAIN jobTable :
            jobTable[n].needs = <<>> =>
                /\ jobTable[n].id \in DOMAIN dependencies
                /\ \A i \in FirstPositions(jobTable[n].stage) :
                    dependencies[jobTable[n].id] =
                        IF i > 1 THEN JobsOfStage(stages[i - 1]) ELSE <<>>
                /\ FirstPositions(jobTable[n].stage) = {} =>
                    dependencies[jobTable[n].id] = <<>>

\* j3 has no needs and depends on j1 and j2 of the previous stage, and j2 has
\* needs of its own; j1 is in a stage that is not in the list
PreviousStageJobs ==
    /\ gpc = "done"
    /\ Len(jobTable) = 3
    /\ jobTable[3].needs = <<>>
    /\ jobTable[2].needs # <<>>
    /\ dependencies["j3"] = <<"j1", "j2">>

\* C4: a job with needs depends on exactly the declared sequence.
ExplicitNeedsKept ==
    gpc = "done" =>
        \A n \in DOMAIN jobTable :
            jobTable[n].needs # <<>> =>
                /\ jobTable[n].id \in DOMAIN dependencies
                /\ dependencies[jobTable[n].id] = jobTable[n].needs

\* a job with a repeated and an unknown need, in a stage whose previous stage
\* has a job
NeedsOverrideStage ==
    /\ gpc = "done"
    /\ \E n \in DOMAIN jobTable :
        /\ dependencies[jobTable[n].id] = <<"j2", "ghost", "j2">>
        /\ \E i \in FirstPositions(jobTable[n].stage) :
            i > 1 /\ JobsOfStage(stages[i - 1]) # <<>>

RECURSIVE ReachableIn(_, _)
\* the identifiers reached from the set S in at most n dependency steps
ReachableIn(S, n) ==
    IF n = 0 THEN {}
    ELSE LET direct == UNION { {dependencies[j][i] : i \in DOMAIN dependencies[j]} :
                               j \in S \cap DOMAIN dependencies }
         IN  direct \cup ReachableIn(direct, n - 1)

\* C10: when no job has needs, no job depends on itself, directly or
\* through other jobs, also when StageList repeats a stage name.
StageGraphAcyclic ==
    (gpc = "done" /\ \A n \in DOMAIN jobTable : jobTable[n].needs = <<>>) =>
        \A n \in DOMAIN jobTable :
            jobTable[n].id \notin ReachableIn({jobTable[n].id}, Len(jobTable))

\* no job has needs, StageList repeats a stage, and a job has dependencies
RepeatedStageGraph ==
    /\ gpc = "done"
    /\ \A n \in DOMAIN jobTable : jobTable[n].needs = <<>>
    /\ \E i, j \in DOMAIN stages : i < j /\ stages[i] = stages[j]
    /\ \E n \in DOMAIN jobTable :
        /\ dependencies[jobTable[n].id] # <<>>
        /\ Cardinality({i \in DOMAIN stages : stages[i] = jobTable[n].stage}) > 1

----------------------------------------------------------------------------
\* Properties of name_to_identifier (IdentSpec)

\* C5: applying name_to_identifier to its own result changes nothing.
SanitizeIdempotent == ipc = "again" => ident2 = ident

\* a name with a leading digit and a non-word character was sanitized twice
SanitizedTwice ==
    /\ ipc = "again"
    /\ name = <<"7", "-", " ">>
    /\ ident = <<"_", "7", "_">>

====
